---- MODULE Spec2Model ----
(***************************************************************************)
(* Droppy (server.js): the directory-state synchronisation of the file     *)
(* server.  The watched directory, the fs.watch callback, prepareFileList  *)
(* and its readdir callback, SendUpdate and the socket / HTTP handlers     *)
(* that call it.                                                           *)
(*                                                                         *)
(* One action is one turn of the node.js event loop: a handler or an       *)
(* asynchronous callback run to completion.  A readdir issued by run is    *)
(* carried out by the thread pool (ReaddirDone / ReaddirFail) and its      *)
(* callback runs in a later turn (ReaddirCallback); several readdirs may   *)
(* be outstanding and their callbacks may run in either order.             *)
(***************************************************************************)
EXTENDS Integers, Sequences, FiniteSets, TLC

\* ----------------------------------------------------------------- bounds
MaxSubs      == 2   \* websocket clients
MaxMutations == 1   \* changes made to the watched directory in one behaviour
MaxTime      == 200 \* the wall clock stops advancing here (ms)
TickMs       == 100 \* granularity of the wall clock (ms)
FileSize     == 10  \* stats.size of every plain file

\* ------------------------------------------------------ program constants
readInterval == 200 \* var readInterval = 200
Null         == -1  \* var last = null

\* The entry names that can exist in the watched directory, in the order in
\* which a directory listing returns them.
DirOrder == <<"a.txt", "new">>

Names == {DirOrder[i] : i \in DOMAIN DirOrder}

Subs == 1..MaxSubs

Kinds == {"f", "d", "o"}          \* plain file, directory, anything else

Absent == "absent"

VARIABLES
    phase,        \* "starting" until the server's "listening" handler has run
    watching,     \* fs.watch is established (createWatcher returned)
    socketsSetup, \* setupSockets has installed the connection handler
    dir,          \* the watched directory: name -> kind, or Absent
    fsVersion,    \* number of changes made to the directory so far
    watchEvents,  \* fs.watch callbacks queued on the event loop
    pending,      \* outstanding fs.readdir requests of prepareFileList.run
    fileList,     \* var fileList: index -> {name, type, size}
    origin,       \* for each index of fileList, the fsVersion of the listing it came from
    built,        \* state: "init" | "cleared" (reset by run, not yet filled) | "done";
                  \* ver: the fsVersion of the listing that filled fileList last
    last,         \* var last: time of the last run, or Null
    now,          \* the wall clock (ms)
    lastTrigger,  \* time of the last prepareFileList call, or Null
    burst,        \* the prepareFileList calls that arrived within one readInterval window
    connected,    \* the connected websocket clients (io.sockets)
    shown,        \* the newest listing version held by a payload that every client
                  \* now connected has been pushed, or Null
    uploading,    \* the upload in progress: its file name ("": none) and the
                  \* fsVersion its write produced
    step          \* what the last turn of the event loop did

vars == <<phase, watching, socketsSetup, dir, fsVersion, watchEvents, pending,
          fileList, origin, built, last, now, lastTrigger, burst, connected,
          shown, uploading, step>>

\* ---------------------------------------------------------------- helpers
EmptyObj == [k \in {} |-> 0]      \* the JavaScript object {}

Put(obj, k, v) == [x \in DOMAIN obj \cup {k} |-> IF x = k THEN v ELSE obj[x]]

MaxOf(S) == CHOOSE x \in S : \A y \in S : y <= x

MinOf(S) == CHOOSE x \in S : \A y \in S : x <= y

RECURSIVE KeysAscending(_)
KeysAscending(S) ==
    IF S = {} THEN <<>>
    ELSE <<MinOf(S)>> \o KeysAscending(S \ {MinOf(S)})

\* JSON.stringify of an object with integer keys: its own properties, the
\* integer keys in ascending order, each as a "key": value pair.
JSONstringify(obj) ==
    [p \in 1..Cardinality(DOMAIN obj) |->
        [key |-> KeysAscending(DOMAIN obj)[p],
         value |-> obj[KeysAscending(DOMAIN obj)[p]]]]

IsPresent(name) == dir[name] # Absent

\* The files array fs.readdir yields for the directory as it is now.
Listing == SelectSeq(DirOrder, IsPresent)

\* fs.statSync(...).size
StatSize(kind) == IF kind = "f" THEN FileSize ELSE 0

NoPush == [s \in Subs |-> 0]

\* The record of one turn: the handler that ran (op), the socket it ran for
\* (who), the name it was given (arg), how it ended (outcome), the status
\* codes passed to res.writeHead (status), the prepareFileList calls
\* (triggers) and executions of run (runs) it made, the SendUpdate calls it
\* made (sends), the pushes each client got (pushes) and the payload, the
\* fs.watch callbacks its change of the directory queued (queued) and the
\* fsVersion its change of the directory produced (ver).  For the readdir
\* callback of run: the files array it was handed (files), the indices of
\* fileList it assigned (wrote) and whether run's callback argument was
\* supplied (callback).
Idle(op) == [op |-> op, who |-> 0, arg |-> "", outcome |-> "", status |-> <<>>,
             triggers |-> 0, runs |-> 0, sends |-> 0, pushes |-> NoPush,
             payload |-> <<>>, queued |-> 0, ver |-> 0,
             files |-> <<>>, wrote |-> {}, callback |-> FALSE]

\* ------------------------------------------------------------- SendUpdate
SendUpdateToFirst ==
    [s \in Subs |-> IF s \in connected /\ s = MinOf(connected) THEN 1 ELSE 0]

\* io.sockets.emit("UPDATE_FILES", JSON.stringify(fileList)): one push to
\* every connected client.
SendUpdate == [s \in Subs |-> IF s \in connected THEN 1 ELSE 0]

\* A turn that calls SendUpdate() once, with fileList being fl.
Sent(rec, fl) == [rec EXCEPT !.sends = 1, !.pushes = SendUpdate,
                             !.payload = JSONstringify(fl)]

\* The clients' view after a push of a fileList whose entries came from the
\* listings og.
Delivered(og) ==
    IF (\E s \in Subs : SendUpdate[s] > 0) /\ DOMAIN og # {}
    THEN MaxOf({shown} \cup {og[i] : i \in DOMAIN og})
    ELSE shown

\* ---------------------------------------------------------------- debounce
\* debounce(func, wait) only builds and returns a closure; a timer is set
\* when that closure is called.  The call itself sets no timer: the number
\* of timers it leaves armed is 0.
debounce(func, wait) == 0

\* ---------------------------------------------------------- prepareFileList
InBurst == burst.triggers > 0 /\ now - burst.start < readInterval

\* run(): last = new Date(); fileList = {}; fs.readdir(...) issued with the
\* callback closed over.
run(callback) ==
    /\ last' = now
    /\ fileList' = EmptyObj
    /\ origin' = EmptyObj
    /\ built' = [state |-> "cleared", ver |-> built.ver]
    /\ pending' = Append(pending, [cb |-> callback, state |-> "issued",
                                    files |-> <<>>, ver |-> 0])

\* debounce(run(), readInterval): run() is evaluated as the argument, so it
\* executes inside this call; debounce gets its result and the closure
\* debounce returns is dropped.
prepareFileList(callback) ==
    /\ run(callback)
    /\ debounce("undefined", readInterval) = 0
    /\ lastTrigger' = now
    /\ burst' = IF InBurst
                THEN [start |-> burst.start, triggers |-> burst.triggers + 1,
                      rebuilds |-> burst.rebuilds + 1]
                ELSE [start |-> now, triggers |-> 1, rebuilds |-> 1]

\* -------------------------------------------------------------------- Init
\* The watched directory may exist already, holding files and directories.
Init ==
    /\ phase = "starting"
    /\ watching = FALSE
    /\ socketsSetup = FALSE
    /\ dir \in [Names -> {Absent, "f", "d"}]
    /\ fsVersion = 0
    /\ watchEvents = 0
    /\ pending = <<>>
    /\ fileList = EmptyObj
    /\ origin = EmptyObj
    /\ built = [state |-> "init", ver |-> Null]
    /\ last = Null
    /\ now = 0
    /\ lastTrigger = Null
    /\ burst = [start |-> 0, triggers |-> 0, rebuilds |-> 0]
    /\ connected = {}
    /\ shown = Null
    /\ uploading = [name |-> "", ver |-> 0]
    /\ step = Idle("init")

\* ----------------------------------------------------------------- startup
\* server.on("listening"): io.listen, createWatcher(), prepareFileList(),
\* setupSockets().  When fs.watch throws, the rest of the handler is skipped
\* and the uncaughtException handler only logs.
Listening(watchOk) ==
    /\ phase = "starting"
    /\ phase' = "running"
    /\ IF watchOk
       THEN /\ watching' = TRUE
            /\ socketsSetup' = TRUE
            /\ prepareFileList(FALSE)
            /\ step' = [Idle("listening") EXCEPT !.triggers = 1, !.runs = 1]
       ELSE /\ step' = [Idle("listening") EXCEPT !.outcome = "uncaught"]
            /\ UNCHANGED <<watching, socketsSetup, pending, fileList, origin,
                           built, last, lastTrigger, burst>>
    /\ UNCHANGED <<dir, fsVersion, watchEvents, now, connected, shown, uploading>>

\* --------------------------------------------------------- the file system
\* The fs.watch callbacks one change queues.
Queued == IF watching THEN 1 ELSE 0

\* A change of the watched directory: the entry n becomes kind k (Absent:
\* it is removed).  fs.watch queues one callback for it.
Mutate(n, k) ==
    /\ fsVersion < MaxMutations
    /\ dir' = [dir EXCEPT ![n] = k]
    /\ fsVersion' = fsVersion + 1
    /\ watchEvents' = watchEvents + Queued

\* A change made from outside the server.
FsChange(n, k) ==
    /\ phase = "running"
    /\ dir[n] # k
    /\ Mutate(n, k)
    /\ step' = Idle("env")
    /\ UNCHANGED <<phase, watching, socketsSetup, pending, fileList, origin,
                   built, last, now, lastTrigger, burst, connected, shown,
                   uploading>>

\* ----------------------------------------------------------- createWatcher
WatcherRebuildsSilently ==
    /\ watchEvents > 0
    /\ watchEvents' = watchEvents - 1
    /\ prepareFileList(FALSE)
    /\ step' = [Idle("watch") EXCEPT !.triggers = 1, !.runs = 1]
    /\ UNCHANGED <<phase, watching, socketsSetup, dir, fsVersion, now,
                   connected, shown, uploading>>

\* The fs.watch callback: event is "change" or "rename", so
\* prepareFileList(function(){ SendUpdate(); }) is called.
WatcherEvent ==
    /\ watchEvents > 0
    /\ watchEvents' = watchEvents - 1
    /\ prepareFileList(TRUE)
    /\ step' = [Idle("watch") EXCEPT !.triggers = 1, !.runs = 1]
    /\ UNCHANGED <<phase, watching, socketsSetup, dir, fsVersion, now,
                   connected, shown, uploading>>

\* ------------------------------------------------------- fs.readdir of run
\* The thread pool carries out an outstanding readdir: it reads the
\* directory as it is now, or fails.
ReaddirDone(r) ==
    /\ r \in DOMAIN pending
    /\ pending[r].state = "issued"
    /\ pending' = [pending EXCEPT ![r] = [cb |-> pending[r].cb, state |-> "listed",
                                           files |-> Listing, ver |-> fsVersion]]
    /\ step' = Idle("env")
    /\ UNCHANGED <<phase, watching, socketsSetup, dir, fsVersion, watchEvents,
                   fileList, origin, built, last, now, lastTrigger, burst,
                   connected, shown, uploading>>

ReaddirFail(r) ==
    /\ r \in DOMAIN pending
    /\ pending[r].state = "issued"
    /\ pending' = [pending EXCEPT ![r] = [cb |-> pending[r].cb, state |-> "error",
                                           files |-> <<>>, ver |-> fsVersion]]
    /\ step' = Idle("env")
    /\ UNCHANGED <<phase, watching, socketsSetup, dir, fsVersion, watchEvents,
                   fileList, origin, built, last, now, lastTrigger, burst,
                   connected, shown, uploading>>

Remove(seq, r) == [i \in 1..(Len(seq) - 1) |-> IF i < r THEN seq[i] ELSE seq[i + 1]]

\* The for loop of the readdir callback, from index i (0-based) on.  `type`
\* is declared with var inside the loop body, so it is one variable of the
\* whole callback and keeps its value from one iteration to the next.
\* fl and og are the global fileList (and its origins) being written.
RECURSIVE BuildLoop(_, _, _, _, _, _)
BuildLoopStopsAtThrow(files, i, type, fl, og, ver) ==
    IF i >= Len(files) THEN [fl |-> fl, og |-> og]
    ELSE LET name == files[i + 1]
             kind == dir[name]
         IN  IF kind = Absent
             THEN [fl |-> fl, og |-> og]
             ELSE LET type2 == IF kind = "d" THEN "d"
                               ELSE IF kind = "f" THEN "f" ELSE type
                  IN  IF type2 = "f" \/ type2 = "d"
                      THEN BuildLoop(files, i + 1, type2,
                                     Put(fl, i, [name |-> name, type |-> type2,
                                                 size |-> StatSize(kind)]),
                                     Put(og, i, ver), ver)
                      ELSE BuildLoop(files, i + 1, type2, fl, og, ver)

BuildLoop(files, i, type, fl, og, ver) ==
    IF i >= Len(files) THEN [fl |-> fl, og |-> og]
    ELSE LET name == files[i + 1]
             kind == dir[name]
         IN  IF kind = Absent
             THEN BuildLoop(files, i + 1, type, fl, og, ver)   \* statSync throws
             ELSE LET type2 == IF kind = "d" THEN "d"
                               ELSE IF kind = "f" THEN "f" ELSE type
                  IN  IF type2 = "f" \/ type2 = "d"
                      THEN BuildLoop(files, i + 1, type2,
                                     Put(fl, i, [name |-> name, type |-> type2,
                                                 size |-> StatSize(kind)]),
                                     Put(og, i, ver), ver)
                      ELSE BuildLoop(files, i + 1, type2, fl, og, ver)

\* The indices at which the loop over files executes fileList[i] = {...}.
Assigned(files) ==
    DOMAIN BuildLoop(files, 0, "undefined", EmptyObj, EmptyObj, 0).fl

ReaddirCallbackToleratesError(r) ==
    /\ r \in DOMAIN pending
    /\ pending[r].state # "issued"
    /\ pending' = Remove(pending, r)
    /\ LET files == IF pending[r].state = "error" THEN <<>> ELSE pending[r].files
           res == BuildLoop(files, 0, "undefined", fileList, origin, pending[r].ver)
           rec == [Idle("readdir_cb") EXCEPT
                      !.outcome = IF pending[r].state = "error" THEN "uncaught"
                                  ELSE "ok",
                      !.files = files,
                      !.wrote = Assigned(files),
                      !.callback = pending[r].cb]
       IN  /\ fileList' = res.fl
           /\ origin' = res.og
           /\ built' = [state |-> "done", ver |-> pending[r].ver]
           /\ IF pending[r].cb
              THEN /\ step' = Sent(rec, res.fl)
                   /\ shown' = Delivered(res.og)
              ELSE /\ step' = rec
                   /\ UNCHANGED shown
    /\ UNCHANGED <<phase, watching, socketsSetup, dir, fsVersion, watchEvents,
                   last, now, lastTrigger, burst, connected, uploading>>

\* The readdir callback of run.  With err set, files is undefined and
\* files.length throws: the loop and the callback are skipped.
ReaddirCallback(r) ==
    /\ r \in DOMAIN pending
    /\ pending[r].state # "issued"
    /\ pending' = Remove(pending, r)
    /\ IF pending[r].state = "error"
       THEN /\ step' = [Idle("readdir_cb") EXCEPT !.outcome = "uncaught",
                                                  !.callback = pending[r].cb]
            /\ UNCHANGED <<fileList, origin, built, shown>>
       ELSE LET res == BuildLoop(pending[r].files, 0, "undefined", fileList,
                                 origin, pending[r].ver)
                rec == [Idle("readdir_cb") EXCEPT
                           !.outcome = "ok",
                           !.files = pending[r].files,
                           !.wrote = Assigned(pending[r].files),
                           !.callback = pending[r].cb]
            IN  /\ fileList' = res.fl
                /\ origin' = res.og
                /\ built' = [state |-> "done", ver |-> pending[r].ver]
                /\ IF pending[r].cb
                   THEN /\ step' = Sent(rec, res.fl)
                        /\ shown' = Delivered(res.og)
                   ELSE /\ step' = rec
                        /\ UNCHANGED shown
    /\ UNCHANGED <<phase, watching, socketsSetup, dir, fsVersion, watchEvents,
                   last, now, lastTrigger, burst, connected, uploading>>

\* ------------------------------------------------------------ setupSockets
Connect(s) ==
    /\ phase = "running"
    /\ s \notin connected
    /\ connected' = connected \cup {s}
    /\ shown' = Null                 \* the new client has been pushed nothing
    /\ step' = Idle("env")
    /\ UNCHANGED <<phase, watching, socketsSetup, dir, fsVersion, watchEvents,
                   pending, fileList, origin, built, last, now, lastTrigger,
                   burst, uploading>>

Disconnect(s) ==
    /\ s \in connected
    /\ connected' = connected \ {s}
    /\ shown' = IF connected = {s} THEN Null ELSE shown
    /\ step' = Idle("env")
    /\ UNCHANGED <<phase, watching, socketsSetup, dir, fsVersion, watchEvents,
                   pending, fileList, origin, built, last, now, lastTrigger,
                   burst, uploading>>

\* socket.on("REQUEST_UPDATE", function () { SendUpdate(); })
RequestUpdate(s) ==
    /\ socketsSetup
    /\ s \in connected
    /\ step' = Sent([Idle("REQUEST_UPDATE") EXCEPT !.who = s], fileList)
    /\ shown' = Delivered(origin)
    /\ UNCHANGED <<phase, watching, socketsSetup, dir, fsVersion, watchEvents,
                   pending, fileList, origin, built, last, now, lastTrigger,
                   burst, connected, uploading>>

\* socket.on("CREATE_FOLDER", ...): fs.mkdir; its callback only logs an error.
CreateFolder(s, name) ==
    /\ socketsSetup
    /\ s \in connected
    /\ IF dir[name] = Absent
       THEN /\ Mutate(name, "d")
            /\ step' = [Idle("CREATE_FOLDER") EXCEPT !.who = s, !.arg = name,
                                                    !.outcome = "ok",
                                                    !.queued = Queued,
                                                    !.ver = fsVersion + 1]
       ELSE /\ step' = [Idle("CREATE_FOLDER") EXCEPT !.who = s, !.arg = name,
                                                    !.outcome = "error"]
            /\ UNCHANGED <<dir, fsVersion, watchEvents>>
    /\ UNCHANGED <<phase, watching, socketsSetup, pending, fileList, origin,
                   built, last, now, lastTrigger, burst, connected, shown,
                   uploading>>

\* ------------------------------------------------------- handleFileRequest
FileFallsThrough(name) ==
    IF dir[name] = Absent
    THEN [outcome |-> "ok", status |-> <<500, 200>>, send |-> TRUE]
    ELSE [outcome |-> "ok", status |-> <<200>>, send |-> FALSE]

\* The callback of the handler's fs.stat.  When stat fails: 500,
\* SendUpdate(), and then, with no return, stats.size of the undefined
\* stats throws ("uncaught") before the 200 header is written and the read
\* stream is created.  Otherwise ("ok") the 200 header is written and the
\* file is piped to the response.
FileOutcome(name) ==
    IF dir[name] = Absent
    THEN [outcome |-> "uncaught", status |-> <<500>>, send |-> TRUE]
    ELSE [outcome |-> "ok", status |-> <<200>>, send |-> FALSE]

FileRequest(name) ==
    /\ phase = "running"
    /\ LET o == FileOutcome(name)
           rec == [Idle("file") EXCEPT !.arg = name, !.outcome = o.outcome,
                                       !.status = o.status]
       IN  IF o.send
           THEN /\ step' = Sent(rec, fileList)
                /\ shown' = Delivered(origin)
           ELSE /\ step' = rec
                /\ UNCHANGED shown
    /\ UNCHANGED <<phase, watching, socketsSetup, dir, fsVersion, watchEvents,
                   pending, fileList, origin, built, last, now, lastTrigger,
                   burst, connected, uploading>>

\* ----------------------------------------------------- handleDeleteRequest
DeleteNeverSends(name, readdirErr) ==
    IF readdirErr
    THEN [outcome |-> "readdir", status |-> <<500>>, send |-> FALSE, remove |-> FALSE]
    ELSE IF dir[name] = Absent
    THEN [outcome |-> "stat", status |-> <<500>>, send |-> FALSE, remove |-> FALSE]
    ELSE [outcome |-> "ok", status |-> <<200>>, send |-> FALSE,
          remove |-> dir[name] \in {"f", "d"}]

DeleteAlwaysSends(name, readdirErr) ==
    IF readdirErr
    THEN [outcome |-> "readdir", status |-> <<500>>, send |-> TRUE, remove |-> FALSE]
    ELSE IF dir[name] = Absent
    THEN [outcome |-> "stat", status |-> <<500>>, send |-> TRUE, remove |-> FALSE]
    ELSE [outcome |-> "ok", status |-> <<200>>, send |-> TRUE,
          remove |-> dir[name] \in {"f", "d"}]

\* The callback of the handler's fs.readdir: with err, 500 and SendUpdate();
\* when statSync throws, 500 and SendUpdate(); otherwise unlink / rmdir of a
\* file / directory and 200, with no SendUpdate.
DeleteOutcome(name, readdirErr) ==
    IF readdirErr
    THEN [outcome |-> "readdir", status |-> <<500>>, send |-> TRUE, remove |-> FALSE]
    ELSE IF dir[name] = Absent
    THEN [outcome |-> "stat", status |-> <<500>>, send |-> TRUE, remove |-> FALSE]
    ELSE [outcome |-> "ok", status |-> <<200>>, send |-> FALSE,
          remove |-> dir[name] \in {"f", "d"}]

DeleteRequestRebuilds(name, readdirErr) ==
    /\ phase = "running"
    /\ LET o == DeleteOutcome(name, readdirErr)
           rec == [Idle("delete") EXCEPT !.arg = name, !.outcome = o.outcome,
                                         !.status = o.status,
                                         !.queued = IF o.remove THEN Queued ELSE 0,
                                         !.ver = IF o.remove THEN fsVersion + 1 ELSE 0]
       IN  IF o.remove
           THEN /\ Mutate(name, Absent)
                /\ prepareFileList(TRUE)
                /\ step' = [rec EXCEPT !.triggers = 1, !.runs = 1]
                /\ UNCHANGED shown
           ELSE /\ step' = IF o.send THEN Sent(rec, fileList) ELSE rec
                /\ shown' = IF o.send THEN Delivered(origin) ELSE shown
                /\ UNCHANGED <<dir, fsVersion, watchEvents, pending, fileList,
                               origin, built, last, lastTrigger, burst>>
    /\ UNCHANGED <<phase, watching, socketsSetup, now, connected, uploading>>

DeleteRequest(name, readdirErr) ==
    /\ phase = "running"
    /\ LET o == DeleteOutcome(name, readdirErr)
           rec == [Idle("delete") EXCEPT !.arg = name, !.outcome = o.outcome,
                                         !.status = o.status,
                                         !.queued = IF o.remove THEN Queued ELSE 0,
                                         !.ver = IF o.remove THEN fsVersion + 1 ELSE 0]
       IN  /\ IF o.send
              THEN /\ step' = Sent(rec, fileList)
                   /\ shown' = Delivered(origin)
              ELSE /\ step' = rec
                   /\ UNCHANGED shown
           /\ IF o.remove
              THEN Mutate(name, Absent)
              ELSE UNCHANGED <<dir, fsVersion, watchEvents>>
    /\ UNCHANGED <<phase, watching, socketsSetup, pending, fileList, origin,
                   built, last, now, lastTrigger, burst, connected, uploading>>

\* ----------------------------------------------------- handleUploadRequest
\* POST /upload: form.parse, the 200 response, and "fileBegin": the part is
\* written to filesDir under the client's file name.  An absent name is
\* created and a plain file is written over; writing over an entry that is
\* no plain file fails and changes nothing.
UploadBegin(name) ==
    /\ phase = "running"
    /\ uploading.name = ""
    /\ IF dir[name] \in {Absent, "f"}
       THEN /\ Mutate(name, "f")
            /\ uploading' = [name |-> name, ver |-> fsVersion + 1]
            /\ step' = [Idle("upload") EXCEPT !.arg = name, !.status = <<200>>,
                                              !.queued = Queued,
                                              !.ver = fsVersion + 1]
       ELSE /\ uploading' = [name |-> name, ver |-> fsVersion]
            /\ step' = [Idle("upload") EXCEPT !.arg = name, !.status = <<200>>]
            /\ UNCHANGED <<dir, fsVersion, watchEvents>>
    /\ UNCHANGED <<phase, watching, socketsSetup, pending, fileList, origin,
                   built, last, now, lastTrigger, burst, connected, shown>>

UploadSilent(event) == [send |-> FALSE]

\* form.on("end") and form.on("error"): SendUpdate(), and nothing else that
\* changes state.
UploadOutcome(event) == [send |-> TRUE]

UploadFinish(event) ==
    /\ uploading.name # ""
    /\ uploading' = [name |-> "", ver |-> 0]
    /\ LET o == UploadOutcome(event)
           rec == [Idle("upload_" \o event) EXCEPT !.arg = uploading.name,
                                                  !.outcome = event,
                                                  !.ver = uploading.ver]
       IN  IF o.send
           THEN /\ step' = Sent(rec, fileList)
                /\ shown' = Delivered(origin)
           ELSE /\ step' = rec
                /\ UNCHANGED shown
    /\ UNCHANGED <<phase, watching, socketsSetup, dir, fsVersion, watchEvents,
                   pending, fileList, origin, built, last, now, lastTrigger,
                   burst, connected>>

\* ------------------------------------------------------------------- time
Tick ==
    /\ now + TickMs <= MaxTime
    /\ now' = now + TickMs
    /\ step' = Idle("env")
    /\ UNCHANGED <<phase, watching, socketsSetup, dir, fsVersion, watchEvents,
                   pending, fileList, origin, built, last, lastTrigger, burst,
                   connected, shown, uploading>>

\* ---------------------------------------------------------- specifications
\* Startup, the watched directory, the watcher, the rebuilds and the clients
\* coming and going.
Env ==
    \/ \E ok \in BOOLEAN : Listening(ok)
    \/ \E n \in Names, k \in Kinds \cup {Absent} : FsChange(n, k)
    \/ WatcherEvent
    \/ \E r \in 1..(MaxMutations + 1) : ReaddirDone(r)
    \/ \E r \in 1..(MaxMutations + 1) : ReaddirCallback(r)
    \/ \E s \in Subs : Connect(s)
    \/ \E s \in Subs : Disconnect(s)

\* A directory listing of a rebuild fails.
ListingFails == \E r \in 1..(MaxMutations + 1) : ReaddirFail(r)

SocketMessage ==
    \/ \E s \in Subs : RequestUpdate(s)
    \/ \E s \in Subs, n \in Names : CreateFolder(s, n)

Download == \E n \in Names : FileRequest(n)

Delete == \E n \in Names, e \in BOOLEAN : DeleteRequest(n, e)

Upload ==
    \/ \E n \in Names : UploadBegin(n)
    \/ \E e \in {"end", "error"} : UploadFinish(e)

Next == Env \/ ListingFails \/ SocketMessage \/ Download \/ Delete \/ Upload

\* The watcher and the rebuilds alone: no request reaches a handler.
SpecBuild == Init /\ [][Env]_vars

\* Clients sending CREATE_FOLDER, entries being removed from outside, the
\* watcher and the rebuilds.
NextCreate ==
    \/ \E ok \in BOOLEAN : Listening(ok)
    \/ \E n \in Names : FsChange(n, Absent)
    \/ WatcherEvent
    \/ \E r \in 1..(MaxMutations + 1) : ReaddirDone(r)
    \/ \E r \in 1..(MaxMutations + 1) : ReaddirCallback(r)
    \/ \E s \in Subs : Connect(s)
    \/ \E s \in Subs, n \in Names : CreateFolder(s, n)

\* The server receiving CREATE_FOLDER messages only, with the event loop and
\* the thread pool making progress: a queued fs.watch callback is run, an
\* outstanding readdir is carried out, and the callback of a finished
\* readdir is run.
SpecCreate ==
    /\ Init
    /\ [][NextCreate]_vars
    /\ WF_vars(WatcherEvent)
    /\ WF_vars(\E r \in 1..(MaxMutations + 1) : ReaddirDone(r))
    /\ WF_vars(\E r \in 1..(MaxMutations + 1) : ReaddirCallback(r))

\* The handlers that change the watched directory (delete, upload,
\* CREATE_FOLDER from one client), the watcher and the rebuilds; nothing
\* else changes the directory.
NextMutations ==
    \/ \E ok \in BOOLEAN : Listening(ok)
    \/ WatcherEvent
    \/ \E r \in 1..(MaxMutations + 1) : ReaddirDone(r)
    \/ \E r \in 1..(MaxMutations + 1) : ReaddirCallback(r)
    \/ Connect(1)
    \/ \E n \in Names : CreateFolder(1, n)
    \/ Delete
    \/ Upload

SpecMutations == Init /\ [][NextMutations]_vars

\* The watcher and the rebuilds alone, with directory listings that fail.
SpecListingFails == Init /\ [][Env \/ ListingFails]_vars

\* The whole server with the wall clock frozen: every turn happens within
\* one readInterval.
Spec == Init /\ [][Next]_vars

\* The server receiving socket messages only.
SpecSockets == Init /\ [][Env \/ SocketMessage]_vars

\* The server receiving file requests only.
SpecDownload == Init /\ [][Env \/ Download]_vars

\* The server receiving delete requests only.
SpecDelete == Init /\ [][Env \/ Delete]_vars

\* The server receiving uploads only.
SpecUpload == Init /\ [][Env \/ Upload]_vars

\* The watcher and the rebuilds under a wall clock.
NextTimed ==
    \/ Listening(TRUE)
    \/ \E n \in Names, k \in Kinds \cup {Absent} : FsChange(n, k)
    \/ WatcherEvent
    \/ \E r \in 1..(MaxMutations + 1) : ReaddirDone(r)
    \/ \E r \in 1..(MaxMutations + 1) : ReaddirCallback(r)
    \/ Tick

SpecTimed == Init /\ [][NextTimed]_vars

\* ------------------------------------------------------------------ claims
Origins == {origin[i] : i \in DOMAIN origin}

\* What one SendUpdate() call delivers in the state it leaves: one push to
\* each connected client, carrying the stored fileList.
BroadcastOfFileList ==
    /\ step.sends = 1
    /\ \A s \in Subs : step.pushes[s] = IF s \in connected THEN 1 ELSE 0
    /\ step.payload = JSONstringify(fileList)

\* C1: debounce coalescing.  The prepareFileList calls that arrive within
\* one readInterval window cause at most one rebuild while the window is
\* open, and exactly one once readInterval has passed since the last call.
C1_DebounceCoalescing ==
    burst.triggers >= 1 =>
        /\ burst.rebuilds <= 1
        /\ (now - lastTrigger >= readInterval => burst.rebuilds = 1)

\* C2: trailing-edge timing.  A rebuild starts no sooner than readInterval
\* after the last prepareFileList call before it, so never inside the call:
\* after a turn that executed run, the time of that run (last) is at least
\* readInterval past the time of the last call.
C2_TrailingEdge == step.runs > 0 => last - lastTrigger >= readInterval

\* C3: at most one rebuild is in flight: never two executions of run whose
\* listing callbacks have both not yet run.
C3_AtMostOneInFlight == Len(pending) <= 1

\* C4: every UPDATE_FILES payload is the initial empty snapshot or the
\* complete result of one finished build: never the fileList a run has
\* cleared and no callback has filled, never entries of two listings.
C4_NoPartialSnapshot ==
    step.sends > 0 => /\ built.state # "cleared"
                      /\ Cardinality(Origins) <= 1

\* C5: snapshot store monotonicity.  Once fileList holds the result of a
\* finished build, it holds that result or the result of a later build
\* from then on.
C5_StoreMonotonic ==
    [][built.state = "done" =>
          /\ built'.state = "done"
          /\ built'.ver >= built.ver]_vars

\* C6: per-subscriber delivery order.  No client is pushed a payload with an
\* entry from a listing older than one it has already been pushed.
C6_DeliveryInBuildOrder ==
    [][\A s \in Subs :
          (step'.sends > 0 /\ step'.pushes[s] > 0) =>
              \A i \in DOMAIN origin' : origin'[i] >= shown]_vars

\* C7 as claimed: on REQUEST_UPDATE the requesting client alone is pushed
\* to, once.
C7_OnlyRequesterPushed ==
    step.op = "REQUEST_UPDATE" =>
        \A s \in Subs : step.pushes[s] = IF s = step.who THEN 1 ELSE 0

\* C7 as amended: on REQUEST_UPDATE the requesting client is pushed one
\* UPDATE_FILES, and so is every other connected client: the handler makes
\* one SendUpdate() call, a broadcast of the stored fileList.
C7_RequestUpdateBroadcasts ==
    step.op = "REQUEST_UPDATE" =>
        /\ step.pushes[step.who] = 1
        /\ BroadcastOfFileList
        /\ step.triggers = 0

C7_Witness ==
    /\ step.op = "REQUEST_UPDATE"
    /\ connected = Subs
    /\ MaxSubs >= 2
    /\ built.state = "done"
    /\ DOMAIN fileList # {}

C9_MissingPathRebuildsOnce ==
    (step.op = "delete" /\ step.outcome = "stat") => step.triggers + step.queued = 1

\* C9 as amended: a delete request for a path that does not exist causes
\* exactly one broadcast (one push of the stored fileList to each connected
\* client) and no rebuild: the handler requests none and queues no watcher
\* event.
C9_MissingPathBroadcastsOnce ==
    (step.op = "delete" /\ step.outcome = "stat") =>
        /\ BroadcastOfFileList
        /\ step.triggers + step.queued = 0
        /\ step.runs = 0
        /\ dir[step.arg] = Absent

C9_Witness ==
    /\ step.op = "delete"
    /\ step.outcome = "stat"
    /\ connected = Subs
    /\ built.state = "done"
    /\ DOMAIN fileList # {}

\* C10 as claimed: the payload pushed when an upload ends (or fails) comes
\* out of a rebuild: it is built from a listing taken once the upload had
\* written the directory.
C10_UploadPayloadIsFresh ==
    (step.op \in {"upload_end", "upload_error"} /\ step.sends > 0) =>
        /\ built.state = "done"
        /\ built.ver >= step.ver

\* C10 as amended: when an upload ends or fails, handleUploadRequest makes
\* one SendUpdate() call and requests no rebuild: each connected client is
\* pushed the stored fileList, whatever listing it came from.
C10_UploadBroadcastsStored ==
    step.op \in {"upload_end", "upload_error"} =>
        /\ BroadcastOfFileList
        /\ step.triggers = 0
        /\ step.runs = 0

C10_Witness ==
    /\ step.op = "upload_end"
    /\ connected # {}
    /\ dir[step.arg] = "f"
    /\ built.state = "done"
    /\ built.ver < step.ver
    /\ \A i \in DOMAIN fileList : fileList[i].name # step.arg

\* The turn just taken was a readdir callback of run that ran its loop.
BuildTurn == step.op = "readdir_cb" /\ step.outcome = "ok"

\* C11: an entry whose stat succeeds and that is neither a plain file nor a
\* directory is left out of the snapshot, whatever precedes it in the
\* listing: the readdir callback assigns fileList[i] for no such entry.
C11_OtherKindExcluded ==
    BuildTurn => \A i \in step.wrote : dir[step.files[i + 1]] # "o"

\* The entry at index i (0-based) of the files array of the turn's callback.
Listed(i) == step.files[i + 1]

CreatedFolder(n) ==
    /\ step.op = "CREATE_FOLDER"
    /\ step.outcome = "ok"
    /\ step.arg = n
    /\ watching

\* The callback of a watcher-triggered rebuild has just pushed, to every
\* connected client, a payload with the entry {name: n, type: "d"}.
PushedFolder(n) ==
    /\ BuildTurn
    /\ step.callback
    /\ \A s \in connected : step.pushes[s] = 1
    /\ \E p \in DOMAIN step.payload :
          /\ step.payload[p].value.name = n
          /\ step.payload[p].value.type = "d"

Settled ==
    /\ phase = "running"
    /\ watching
    /\ watchEvents = 0
    /\ pending = <<>>

\* fileList holds the plain files and directories of the watched directory,
\* each once and with its kind, and nothing else.
SnapshotIsDirectory ==
    /\ \A n \in Names :
          dir[n] \in {"f", "d"} =>
              Cardinality({i \in DOMAIN fileList : fileList[i].name = n}) = 1
    /\ \A i \in DOMAIN fileList : fileList[i].type = dir[fileList[i].name]

\* C15: eventual consistency.  Once the changes of the watched directory
\* have been notified and the listing callbacks of all rebuilds have run,
\* the stored snapshot holds exactly the files and directories now in the
\* directory, each once and none that has been deleted.  (Stated for a
\* directory that holds plain files and directories only.)
C15_SettledSnapshotIsDirectory ==
    (Settled /\ \A n \in Names : dir[n] # "o") => SnapshotIsDirectory

\* C16: when fs.watch throws in the "listening" handler, startup is
\* aborted: the server is never serving requests with no watcher active
\* and no socket handlers installed.
C16_NoServingWithoutWatcher ==
    ~(phase = "running" /\ ~watching /\ ~socketsSetup)

MutationOps == {"delete", "upload", "upload_end", "upload_error", "CREATE_FOLDER"}

\* C17: one change made through a handler and its one watcher notification
\* cause one rebuild, not two.  The handlers that change the directory
\* execute run in none of their turns and each change queues one fs.watch
\* callback; the watch being active, the executions of run so far (counted
\* by burst.rebuilds while the clock stands) are the one of startup and
\* one for each change whose fs.watch callback has run.
C17_OneRebuildPerMutation ==
    /\ step.op \in MutationOps =>
          (step.runs = 0 /\ step.triggers = 0 /\ step.queued <= 1)
    /\ watching => burst.rebuilds = 1 + fsVersion - watchEvents

C17_Witness ==
    /\ step.op = "watch"
    /\ step.runs = 1
    /\ fsVersion = 1
    /\ watchEvents = 0
    /\ burst.rebuilds = 2

\* C18: when stat of the requested path fails, handleFileRequest answers
\* once, with status 500: it writes no 200 header and pipes no file, and
\* it makes exactly one SendUpdate() call, a broadcast of the stored
\* fileList.
C18_FileRequestFailsWith500 ==
    (step.op = "file" /\ dir[step.arg] = Absent) =>
        /\ step.status = <<500>>
        /\ step.outcome = "uncaught"
        /\ BroadcastOfFileList
        /\ step.triggers = 0
        /\ step.runs = 0

C18_Witness ==
    /\ step.op = "file"
    /\ dir[step.arg] = Absent
    /\ step.status = <<500>>
    /\ connected = Subs
    /\ DOMAIN fileList # {}

\* The turn just taken was a readdir callback of run that was handed an
\* error.
FailedListingTurn == step.op = "readdir_cb" /\ step.outcome = "uncaught"

====
